---- MODULE Spec2Model ----
(***************************************************************************)
(* Self-Organizing Orrery (SOOMap, src/SOO.ipynb): node weights, node      *)
(* coordinates, BMU search, weight and coordinate updates, the convergence *)
(* metric and the training loop with its decay schedule.                   *)
(*                                                                         *)
(* Number representation.  Tensor entries (weights, coordinates, data) are *)
(* exact integers counting steps of a grid of spacing sqrt(1e-9) for       *)
(* weights and data and 1 / Unit for coordinates; initial values are       *)
(* multiples of Unit.  Learning rates and radii count halves (LrDen = 2).  *)
(* Unit is a power of two large enough that every product lr * (x - w)     *)
(* taken within the bounds of a run is exact, so the arithmetic below is   *)
(* the real-number arithmetic of the code.  The convergence value is the   *)
(* number of embedded features; its denominator is input_dim.              *)
(* Indices are 0-based as in the source.                                   *)
(***************************************************************************)
EXTENDS Integers, Sequences, FiniteSets, TLC

\* ---------------------------------------------------------------- bounds
MaxNodes   == 2
MaxSamples == 2
MaxEpochs  == 2

\* ------------------------------------------------------------- constants
LrDen == 2

RECURSIVE Pow2(_)
Pow2(k) == IF k = 0 THEN 1 ELSE 2 * Pow2(k - 1)

\* one run of train makes at most MaxEpochs * MaxSamples updates of a value
Unit == Pow2(MaxEpochs * MaxSamples)

\* 1e-9 expressed in squared grid steps (one step is sqrt(1e-9))
VarEps == 1

\* the 1e-9 added to the (dimensionless) variance ratio, as 1 / RatioEpsDen
RatioEpsDen == 1000000000

InputDims == {1, 2}
DataDims  == {1, 2, 3}
GridVals  == {0, Unit}
LrVals    == {0, 1, 2, 3}
InitLrVals     == {0, 2}
InitRadiusVals == {0, 2}
Floors         == {<<0, 0>>, <<1, 1>>, <<2, 2>>}
BatchSizes     == {1, 2}

VARIABLES num_nodes, input_dim, weights, coordinates,
          initial_lr, current_lr, initial_radius, current_radius, last_cv,
          pc, data, ref_data_np, epochs, batch_size, min_lr, min_radius,
          epoch, data_shuffled, i, j, seen, cv, cv_log, lr_log, decays, err,
          ret,
          \* history: the coordinates __init__ drew, and the weights and
          \* coordinates at the head of the running epoch
          coordinates_init, epoch_begin

mapVars   == <<num_nodes, input_dim, weights, coordinates,
               initial_lr, current_lr, initial_radius, current_radius, last_cv>>
trainVars == <<pc, data, ref_data_np, epochs, batch_size, min_lr, min_radius,
               epoch, data_shuffled, i, j, seen, cv, cv_log, lr_log, decays, err,
               coordinates_init, epoch_begin>>
callVars  == <<ret>>
vars      == <<mapVars, trainVars, callVars>>

\* --------------------------------------------------------------- helpers
Rows(t) == Cardinality(DOMAIN t)
Cols(t) == IF Rows(t) = 0 THEN 0 ELSE Cardinality(DOMAIN t[0])

RECURSIVE SumTo(_, _)
SumTo(f, k) == IF k < 0 THEN 0 ELSE f[k] + SumTo(f, k - 1)

\* sum of a 0-based vector
Sum(f) == SumTo(f, Cardinality(DOMAIN f) - 1)

\* a / b <= c / d for a, c >= 0 and b, d > 0, without forming a*d and c*b
RECURSIVE FracLE(_, _, _, _)
FracLE(a, b, c, d) ==
    LET qa == a \div b
        qc == c \div d
        ra == a % b
        rc == c % d
    IN  IF qa # qc THEN qa < qc
        ELSE IF ra = 0 THEN TRUE
        ELSE IF rc = 0 THEN FALSE
        ELSE FracLE(d, rc, b, ra)

\* broadcasting of a length-L vector against rows of length D
Broadcastable(D, L) == L = D \/ L = 1 \/ D = 1
BLen(D, L) == IF D >= L THEN D ELSE L
At(v, k) == IF Cardinality(DOMAIN v) = 1 THEN v[0] ELSE v[k]

\* ------------------------------------------------------------- find_bmu
\* the default metric: lambda w, x: torch.sum((w - x) ** 2, dim=1)
distance_metric(w, x) ==
    LET D == Cols(w)
        L == Cardinality(DOMAIN x)
    IN  [n \in DOMAIN w |->
            Sum([k \in 0..(BLen(D, L) - 1) |->
                    (At(w[n], k) - At(x, k)) * (At(w[n], k) - At(x, k))])]

\* torch.argmin: scan from index 0, keep the first minimal value
RECURSIVE ArgminLastFrom(_, _, _)
ArgminLastFrom(dists, k, best) ==
    IF k >= Cardinality(DOMAIN dists) THEN best
    ELSE ArgminLastFrom(dists, k + 1, IF dists[k] <= dists[best] THEN k ELSE best)

RECURSIVE ArgminFrom(_, _, _)
ArgminFrom(dists, k, best) ==
    IF k >= Cardinality(DOMAIN dists) THEN best
    ELSE ArgminFrom(dists, k + 1, IF dists[k] < dists[best] THEN k ELSE best)

argmin(dists) == ArgminFrom(dists, 1, 0)

\* result of find_bmu(x): an index, or the RuntimeError of the broadcast
find_bmu(w, x) ==
    IF ~Broadcastable(Cols(w), Cardinality(DOMAIN x))
    THEN [ok |-> FALSE, idx |-> 0]
    ELSE [ok |-> TRUE, idx |-> argmin(distance_metric(w, x))]

\* ------------------------------------------------------- update_weights
\* weights[bmu_idx] += lr * (x - weights[bmu_idx]); the in-place add needs
\* the right-hand side to have the row's own length after broadcasting
UpdateWeightsOk(w, x) ==
    LET D == Cols(w)
        L == Cardinality(DOMAIN x)
    IN  L = D \/ L = 1

StepAway(lr, from, to) == from - (lr * (to - from)) \div LrDen

Step(lr, from, to) == from + (lr * (to - from)) \div LrDen

update_weights_all(w, bmu_idx, x, lr) ==
    [n \in DOMAIN w |-> [k \in DOMAIN w[n] |-> Step(lr, w[n][k], At(x, k))]]

update_weights(w, bmu_idx, x, lr) ==
    [w EXCEPT ![bmu_idx] = [k \in DOMAIN w[bmu_idx] |->
                               Step(lr, w[bmu_idx][k], At(x, k))]]

\* --------------------------------------------------- update_coordinates
\* bmu_coord is a view of row bmu_idx; the loop visits the neighbors in
\* increasing index order (torch.where returns sorted indices)
RECURSIVE update_coordinates_from(_, _, _, _, _)
update_coordinates_from(c, bmu_idx, neighbor_indices, coord_lr, k) ==
    IF k >= Rows(c) THEN c
    ELSE IF k \in neighbor_indices
         THEN update_coordinates_from(
                  [c EXCEPT ![k] = [a \in DOMAIN c[k] |->
                                       Step(coord_lr, c[k][a], c[bmu_idx][a])]],
                  bmu_idx, neighbor_indices, coord_lr, k + 1)
         ELSE update_coordinates_from(c, bmu_idx, neighbor_indices, coord_lr, k + 1)

RECURSIVE update_coordinates_toward_last(_, _, _, _, _)
update_coordinates_toward_last(c, last_idx, neighbor_indices, coord_lr, k) ==
    IF k >= Rows(c) THEN c
    ELSE IF k \in neighbor_indices
         THEN update_coordinates_toward_last(
                  [c EXCEPT ![k] = [a \in DOMAIN c[k] |->
                                       Step(coord_lr, c[k][a], c[last_idx][a])]],
                  k, neighbor_indices, coord_lr, k + 1)
         ELSE update_coordinates_toward_last(c, last_idx, neighbor_indices, coord_lr, k + 1)

update_coordinates_chained(c, bmu_idx, neighbor_indices, coord_lr) ==
    update_coordinates_toward_last(c, bmu_idx, neighbor_indices, coord_lr, 0)

update_coordinates_everyone(c, bmu_idx, neighbor_indices, coord_lr) ==
    update_coordinates_from(c, bmu_idx, DOMAIN c, coord_lr, 0)

update_coordinates(c, bmu_idx, neighbor_indices, coord_lr) ==
    update_coordinates_from(c, bmu_idx, neighbor_indices, coord_lr, 0)

\* ----------------------------------------------------- calc_convergence
Column(t, d) == [n \in DOMAIN t |-> t[n][d]]

\* numpy var(ddof=1) of a column is VarNum / VarDen; it is NaN when the
\* column has at most one entry (VarDen = 0)
VarNum(col) ==
    Cardinality(DOMAIN col) * Sum([n \in DOMAIN col |-> col[n] * col[n]])
        - Sum(col) * Sum(col)
VarDen(col) == Cardinality(DOMAIN col) * (Cardinality(DOMAIN col) - 1)
IsNaN(col)  == Cardinality(DOMAIN col) <= 1

\* abs(m1 - m2) <= 1.96 * sqrt(v1/n1 + v2/n2), both sides squared;
\* any comparison with NaN is False
mean_diff_ok(c1, c2) ==
    LET n1 == Cardinality(DOMAIN c1)
        n2 == Cardinality(DOMAIN c2)
        X  == (Sum(c1) * n2 - Sum(c2) * n1) * (Sum(c1) * n2 - Sum(c2) * n1)
        Y  == (n1 * n2) * (n1 * n2)
        Z  == VarNum(c1) * VarDen(c2) * n2 + VarNum(c2) * VarDen(c1) * n1
        W  == VarDen(c1) * n1 * VarDen(c2) * n2
    IN  IF IsNaN(c1) \/ IsNaN(c2) THEN FALSE
        ELSE IF Z = 0 THEN X = 0
        ELSE FracLE(X, Z, 196 * 196 * Y, 100 * 100 * W)

\* ratio = v1 / (v2 + 1e-9); if ratio < 1: ratio = 1.0 / (ratio + 1e-9);
\* var_diff_ok = ratio <= 2.0.  With ratio = P / Q, the second branch is
\* 1 / (P/Q + 1e-9) <= 2, that is P/Q >= 1/2 - 1e-9.
var_diff_ok_sym(c1, c2) ==
    LET P == VarNum(c1) * VarDen(c2)
        Q == VarDen(c1) * VarNum(c2)
    IN  IF IsNaN(c1) \/ IsNaN(c2) THEN FALSE
        ELSE IF P >= Q THEN P <= 2 * Q ELSE Q <= 2 * P

var_diff_ok(c1, c2) ==
    LET P == VarNum(c1) * VarDen(c2)
        Q == VarDen(c1) * (VarNum(c2) + VarEps * VarDen(c2))
    IN  IF IsNaN(c1) \/ IsNaN(c2) THEN FALSE
        ELSE IF P >= Q THEN P <= 2 * Q
        ELSE FracLE(RatioEpsDen - 2, 2 * RatioEpsDen, P, Q)

\* result of calc_convergence(data_ref): the number of embedded features
\* (cv_value times input_dim), or the IndexError of data_means[d] when the
\* reference data has fewer than input_dim columns
calc_convergence(w, data_ref) ==
    IF Cols(data_ref) < Cols(w)
    THEN [ok |-> FALSE, cv |-> 0]
    ELSE [ok |-> TRUE,
          cv |-> Cardinality({d \in 0..(Cols(w) - 1) :
                    /\ mean_diff_ok(Column(data_ref, d), Column(w, d))
                    /\ var_diff_ok(Column(data_ref, d), Column(w, d))})]

\* ----------------------------------------------------------------- Init
CoordInit == { [a \in 0..2 |-> 0],
               [a \in 0..2 |-> IF a = 0 THEN Unit ELSE 0],
               [a \in 0..2 |-> Unit] }

NoData == [n \in {} |-> 0]
NoRet  == [op |-> "none"]

\* SOOMap.__init__; train has not been called
Init ==
    /\ num_nodes \in 1..MaxNodes
    /\ input_dim \in InputDims
    /\ weights \in [0..(num_nodes - 1) -> [0..(input_dim - 1) -> GridVals]]
    /\ coordinates \in [0..(num_nodes - 1) -> CoordInit]
    /\ initial_lr \in InitLrVals
    /\ current_lr = initial_lr
    /\ initial_radius \in InitRadiusVals
    /\ current_radius = initial_radius
    /\ last_cv = 0
    /\ pc = "idle"
    /\ data = NoData
    /\ ref_data_np = NoData
    /\ epochs = 0
    /\ batch_size = 1
    /\ min_lr = 0
    /\ min_radius = 0
    /\ epoch = 0
    /\ data_shuffled = NoData
    /\ i = 0
    /\ j = 0
    /\ seen = {}
    /\ cv = 0
    /\ cv_log = <<>>
    /\ lr_log = <<>>
    /\ decays = 0
    /\ err = "none"
    /\ ret = NoRet
    /\ coordinates_init = coordinates
    /\ epoch_begin = [weights |-> weights, coordinates |-> coordinates]

\* ------------------------------------------------- direct method calls
Vectors == UNION {[0..(L - 1) -> GridVals] : L \in DataDims}

FindBmuCall ==
    /\ pc = "idle" /\ ret = NoRet
    /\ \E x \in Vectors :
          ret' = [op |-> "find_bmu", x |-> x, res |-> find_bmu(weights, x)]
    /\ UNCHANGED <<mapVars, trainVars>>

UpdateWeightsCall ==
    /\ pc = "idle" /\ ret = NoRet
    /\ \E bmu_idx \in DOMAIN weights, x \in Vectors, lr \in LrVals :
          IF UpdateWeightsOk(weights, x)
          THEN /\ weights' = update_weights(weights, bmu_idx, x, lr)
               /\ ret' = [op |-> "update_weights", bmu_idx |-> bmu_idx,
                          x |-> x, lr |-> lr, ok |-> TRUE]
          ELSE /\ weights' = weights
               /\ ret' = [op |-> "update_weights", bmu_idx |-> bmu_idx,
                          x |-> x, lr |-> lr, ok |-> FALSE]
    /\ UNCHANGED <<num_nodes, input_dim, coordinates, initial_lr, current_lr,
                   initial_radius, current_radius, last_cv, trainVars>>

UpdateCoordinatesCall ==
    /\ pc = "idle" /\ ret = NoRet
    /\ \E bmu_idx \in DOMAIN coordinates,
          neighbor_indices \in SUBSET (DOMAIN coordinates), coord_lr \in LrVals :
          /\ coordinates' = update_coordinates(coordinates, bmu_idx,
                                               neighbor_indices, coord_lr)
          /\ ret' = [op |-> "update_coordinates", bmu_idx |-> bmu_idx,
                     neighbor_indices |-> neighbor_indices, coord_lr |-> coord_lr]
    /\ UNCHANGED <<num_nodes, input_dim, weights, initial_lr, current_lr,
                   initial_radius, current_radius, last_cv, trainVars>>

\* reference data of a direct call: the node weights themselves, or a
\* small sample of grid vectors
RefSamples ==
    UNION {[0..(n - 1) -> [0..(L - 1) -> GridVals]] :
              n \in 1..MaxSamples, L \in InputDims}

CalcConvergenceCall ==
    /\ pc = "idle" /\ ret = NoRet
    /\ \E data_ref \in RefSamples \cup {weights} :
          LET r == calc_convergence(weights, data_ref)
          IN  /\ ret' = [op |-> "calc_convergence", data_ref |-> data_ref, res |-> r]
              /\ last_cv' = IF r.ok THEN r.cv ELSE last_cv
    /\ UNCHANGED <<num_nodes, input_dim, weights, coordinates, initial_lr,
                   current_lr, initial_radius, current_radius, trainVars>>

NextCalls ==
    \/ FindBmuCall
    \/ UpdateWeightsCall
    \/ UpdateCoordinatesCall
    \/ CalcConvergenceCall

\* one method call on a freshly constructed map with default rate and radius
InitCalls == Init /\ initial_lr = 2 /\ initial_radius = 2

SpecCalls == InitCalls /\ [][NextCalls]_vars

\* lines 156-158 run as one task per neighbor, in any order and
\* interleaved: a task reads bmu_coord and its own row (line 158, right-hand
\* side), and later writes its own row (line 158, +=)
NoTasks == [n \in {} |-> 0]

UpdateCoordinatesFork ==
    /\ pc = "idle" /\ ret = NoRet
    /\ \E bmu_idx \in DOMAIN coordinates,
          neighbor_indices \in SUBSET (DOMAIN coordinates), coord_lr \in LrVals :
          ret' = [op |-> "update_coordinates_tasks", bmu_idx |-> bmu_idx,
                  neighbor_indices |-> neighbor_indices, coord_lr |-> coord_lr,
                  start |-> coordinates, pending |-> neighbor_indices,
                  read |-> NoTasks]
    /\ UNCHANGED <<mapVars, trainVars>>

NeighborRead ==
    /\ ret.op = "update_coordinates_tasks"
    /\ \E ni \in ret.pending :
          ret' = [ret EXCEPT
                     !.pending = @ \ {ni},
                     !.read = [n \in DOMAIN @ \cup {ni} |->
                                  IF n = ni
                                  THEN [bmu_coord |-> coordinates[ret.bmu_idx],
                                        own |-> coordinates[ni]]
                                  ELSE @[n]]]
    /\ UNCHANGED <<mapVars, trainVars>>

NeighborWrite ==
    /\ ret.op = "update_coordinates_tasks"
    /\ \E ni \in DOMAIN ret.read :
          /\ coordinates' =
                [coordinates EXCEPT ![ni] =
                    [a \in DOMAIN @ |->
                        Step(ret.coord_lr, ret.read[ni].own[a], ret.read[ni].bmu_coord[a])]]
          /\ ret' = [ret EXCEPT !.read = [n \in DOMAIN @ \ {ni} |-> @[n]]]
    /\ UNCHANGED <<num_nodes, input_dim, weights, initial_lr, current_lr,
                   initial_radius, current_radius, last_cv, trainVars>>

NextTasks ==
    \/ UpdateCoordinatesFork
    \/ NeighborRead
    \/ NeighborWrite

\* the coordinate update does not read the weights: they start at zero here
InitTasks ==
    /\ InitCalls
    /\ \A n \in DOMAIN weights : \A k \in DOMAIN weights[n] : weights[n][k] = 0

SpecTasks == InitTasks /\ [][NextTasks]_vars

\* ---------------------------------------------------------------- train
Perms(n) == {p \in [0..(n - 1) -> 0..(n - 1)] :
                \A a, b \in 0..(n - 1) : a # b => p[a] # p[b]}

\* training rows: every grid row of a length the map can take, and one
\* over-long row
TrainRows(L) ==
    IF L \in InputDims
    THEN {r \in [0..(L - 1) -> GridVals] : \A k \in 1..(L - 1) : r[k - 1] >= r[k]}
    ELSE {[k \in 0..(L - 1) |-> 0]}

DataSets == UNION {[0..(n - 1) -> TrainRows(L)] : n \in 1..MaxSamples, L \in DataDims}

\* the reference subsets train draws here: the whole data (ref_sample_size
\* <= 0 or > n_samples), or one row, np.random.choice(n_samples, size=1)
RefChoices(d) ==
    {d} \cup {[k \in 0..0 |-> d[n]] : n \in DOMAIN d}

\* lines 243-252: data, the reference subset and the arguments are fixed
TrainBegin ==
    /\ pc = "idle" /\ ret = NoRet
    /\ \E d \in DataSets, e \in 0..MaxEpochs, b \in BatchSizes, f \in Floors :
          /\ data' = d
          /\ \E r \in RefChoices(d) : ref_data_np' = r
          /\ epochs' = e
          /\ batch_size' = b
          /\ min_lr' = f[1]
          /\ min_radius' = f[2]
    /\ epoch' = 0
    /\ lr_log' = <<<<current_lr, current_radius>>>>
    /\ pc' = "epoch"
    /\ UNCHANGED <<mapVars, data_shuffled, i, j, seen, cv, cv_log, decays, err, ret,
                   coordinates_init, epoch_begin>>

\* lines 254-257: the head of the epoch loop draws a fresh permutation
EpochStart ==
    /\ pc = "epoch" /\ epoch < epochs
    /\ epoch' = epoch + 1
    /\ \E perm \in Perms(Rows(data)) :
          data_shuffled' = [k \in DOMAIN data |-> data[perm[k]]]
    /\ i' = 0
    /\ j' = 0
    /\ seen' = {}
    /\ epoch_begin' = [weights |-> weights, coordinates |-> coordinates]
    /\ pc' = "sample"
    /\ UNCHANGED <<mapVars, data, ref_data_np, epochs, batch_size, min_lr,
                   min_radius, cv, cv_log, lr_log, decays, err, ret,
                   coordinates_init>>

\* line 254: range(1, epochs+1) is exhausted and train returns
TrainReturn ==
    /\ pc = "epoch" /\ epoch >= epochs
    /\ pc' = "done"
    /\ UNCHANGED <<mapVars, data, ref_data_np, epochs, batch_size, min_lr,
                   min_radius, epoch, data_shuffled, i, j, seen, cv, cv_log,
                   lr_log, decays, err, ret,
                   coordinates_init, epoch_begin>>

\* lines 273-275: nodes whose squared coordinate distance to the BMU is at
\* most current_radius ** 2
Neighbors(c, bmu_idx, radius) ==
    {n \in DOMAIN c :
        4 * Sum([a \in DOMAIN c[n] |->
                    (c[n][a] - c[bmu_idx][a]) * (c[n][a] - c[bmu_idx][a])])
            <= radius * radius * Unit * Unit}

\* the loop counters after one sample: next sample of the batch, next
\* batch, or the end of the epoch
BatchLen == IF i + batch_size <= Rows(data) THEN batch_size ELSE Rows(data) - i

AdvanceDropRemainder ==
    IF j + 1 < BatchLen
    THEN /\ j' = j + 1 /\ i' = i /\ pc' = "sample"
    ELSE /\ j' = 0
         /\ i' = i + batch_size
         /\ pc' = IF i + 2 * batch_size <= Rows(data) THEN "sample" ELSE "convergence"

Advance ==
    IF j + 1 < BatchLen
    THEN /\ j' = j + 1 /\ i' = i /\ pc' = "sample"
    ELSE /\ j' = 0
         /\ i' = i + batch_size
         /\ pc' = IF i + batch_size < Rows(data) THEN "sample" ELSE "convergence"

SampleStepOwnCoordRate ==
    /\ pc = "sample"
    /\ \E x \in {data_shuffled[i + j]} :
       \E r \in {find_bmu(weights, x)} :
       \E nbr \in {Neighbors(coordinates, r.idx, current_radius)} :
          IF r.ok /\ UpdateWeightsOk(weights, x)
          THEN /\ weights' = update_weights(weights, r.idx, x, current_lr)
               /\ coordinates' = update_coordinates(coordinates, r.idx, nbr, initial_lr)
               /\ seen' = seen \cup {i + j}
               /\ Advance
               /\ err' = err
          ELSE /\ pc' = "error"
               /\ err' = "RuntimeError"
               /\ UNCHANGED <<weights, coordinates, i, j, seen>>
    /\ UNCHANGED <<num_nodes, input_dim, initial_lr, current_lr, initial_radius,
                   current_radius, last_cv, data, ref_data_np, epochs, batch_size,
                   min_lr, min_radius, epoch, data_shuffled, cv, cv_log, lr_log,
                   decays, ret,
                   coordinates_init, epoch_begin>>

\* lines 268-281: one sample (x, bmu_idx and neighbor_idx are computed
\* once, before the updates)
SampleStep ==
    /\ pc = "sample"
    /\ \E x \in {data_shuffled[i + j]} :
       \E r \in {find_bmu(weights, x)} :
       \E nbr \in {Neighbors(coordinates, r.idx, current_radius)} :
          IF r.ok /\ UpdateWeightsOk(weights, x)
          THEN /\ weights' = update_weights(weights, r.idx, x, current_lr)
               /\ coordinates' = update_coordinates(coordinates, r.idx, nbr, current_lr)
               /\ seen' = seen \cup {i + j}
               /\ Advance
               /\ err' = err
          ELSE /\ pc' = "error"
               /\ err' = "RuntimeError"
               /\ UNCHANGED <<weights, coordinates, i, j, seen>>
    /\ UNCHANGED <<num_nodes, input_dim, initial_lr, current_lr, initial_radius,
                   current_radius, last_cv, data, ref_data_np, epochs, batch_size,
                   min_lr, min_radius, epoch, data_shuffled, cv, cv_log, lr_log,
                   decays, ret,
                   coordinates_init, epoch_begin>>

\* lines 284-285: convergence on the reference data, logged
ConvergenceStep ==
    /\ pc = "convergence"
    /\ LET r == calc_convergence(weights, ref_data_np)
       IN  IF r.ok
           THEN /\ cv' = r.cv
                /\ last_cv' = r.cv
                /\ cv_log' = Append(cv_log, r.cv)
                /\ pc' = "decay"
                /\ err' = err
           ELSE /\ pc' = "error"
                /\ err' = "IndexError"
                /\ UNCHANGED <<cv, last_cv, cv_log>>
    /\ UNCHANGED <<num_nodes, input_dim, weights, coordinates, initial_lr,
                   current_lr, initial_radius, current_radius, data, ref_data_np,
                   epochs, batch_size, min_lr, min_radius, epoch, data_shuffled,
                   i, j, seen, lr_log, decays, ret,
                   coordinates_init, epoch_begin>>

\* Python max(a, b): b if b > a else a
max(a, b) == IF b > a THEN b ELSE a

DecayedStale(initial, c) == initial

DecayedGrowing(initial, c) == (initial * (input_dim + c)) \div input_dim

\* initial * (1.0 - cv), cv being c / input_dim
Decayed(initial, c) == (initial * (input_dim - c)) \div input_dim

DecayStepEarlyStop ==
    /\ pc = "decay"
    /\ current_lr' = max(min_lr, Decayed(initial_lr, cv))
    /\ current_radius' = max(min_radius, Decayed(initial_radius, cv))
    /\ lr_log' = Append(lr_log, <<current_lr', current_radius'>>)
    /\ decays' = decays + 1
    /\ pc' = IF cv = input_dim THEN "done" ELSE "epoch"
    /\ UNCHANGED <<num_nodes, input_dim, weights, coordinates, initial_lr,
                   initial_radius, last_cv, data, ref_data_np, epochs, batch_size,
                   min_lr, min_radius, epoch, data_shuffled, i, j, seen, cv, cv_log,
                   err, ret,
                   coordinates_init, epoch_begin>>

\* lines 290-291
DecayStep ==
    /\ pc = "decay"
    /\ current_lr' = max(min_lr, Decayed(initial_lr, cv))
    /\ current_radius' = max(min_radius, Decayed(initial_radius, cv))
    /\ lr_log' = Append(lr_log, <<current_lr', current_radius'>>)
    /\ decays' = decays + 1
    /\ pc' = "epoch"
    /\ UNCHANGED <<num_nodes, input_dim, weights, coordinates, initial_lr,
                   initial_radius, last_cv, data, ref_data_np, epochs, batch_size,
                   min_lr, min_radius, epoch, data_shuffled, i, j, seen, cv, cv_log,
                   err, ret,
                   coordinates_init, epoch_begin>>

TrainNext ==
    \/ EpochStart
    \/ SampleStep
    \/ ConvergenceStep
    \/ DecayStep
    \/ TrainReturn

\* a behaviour is one direct method call or one run of train
Next ==
    \/ FindBmuCall
    \/ UpdateWeightsCall
    \/ UpdateCoordinatesCall
    \/ CalcConvergenceCall
    \/ TrainBegin
    \/ TrainNext

\* the maps trained here: node 0 at the origin with zero weights, every
\* node's weight row constant, rate and radius not both zero
InitTrain ==
    /\ Init
    /\ \A k \in DOMAIN weights[0] : weights[0][k] = 0
    /\ \A n \in DOMAIN weights : \A k \in DOMAIN weights[n] : weights[n][k] = weights[n][0]
    /\ \A a \in 0..2 : coordinates[0][a] = 0
    /\ \A n \in DOMAIN coordinates : coordinates[n][1] = 0
    /\ initial_lr + initial_radius > 0

Spec == InitTrain /\ [][Next]_vars

\* lines 243-252: train(data, epochs=1) on MaxSamples + 1 rows, the whole
\* data being the reference sample; a batch size of 2 leaves a remainder
\* batch
TrainBeginLong ==
    /\ pc = "idle" /\ ret = NoRet
    /\ \E L \in InputDims, b \in BatchSizes, f \in Floors :
       \E d \in [0..MaxSamples -> TrainRows(L)] :
          /\ data' = d
          /\ ref_data_np' = d
          /\ epochs' = 1
          /\ batch_size' = b
          /\ min_lr' = f[1]
          /\ min_radius' = f[2]
    /\ epoch' = 0
    /\ lr_log' = <<<<current_lr, current_radius>>>>
    /\ pc' = "epoch"
    /\ UNCHANGED <<mapVars, data_shuffled, i, j, seen, cv, cv_log, decays, err, ret,
                   coordinates_init, epoch_begin>>

NextBatches ==
    \/ TrainBegin
    \/ TrainBeginLong
    \/ TrainNext

\* runs of train only, the longer datasets included
SpecBatches == InitTrain /\ [][NextBatches]_vars

\* lines 268-281 applied to the rows k .. m-1 of a shuffled dataset one
\* after the other, with no batches
RECURSIVE SamplesUpTo(_, _, _, _, _, _, _)
SamplesUpTo(w, c, xs, lr, radius, k, m) ==
    IF k >= m THEN [weights |-> w, coordinates |-> c]
    ELSE LET bmu_idx == find_bmu(w, xs[k]).idx
         IN  SamplesUpTo(update_weights(w, bmu_idx, xs[k], lr),
                         update_coordinates(c, bmu_idx, Neighbors(c, bmu_idx, radius), lr),
                         xs, lr, radius, k + 1, m)

\* sanity of the number representation: every value is still a multiple of the step the remaining updates need
Exact ==
    LET left == IF ret # NoRet THEN 0
                ELSE IF pc = "idle" THEN MaxEpochs * MaxSamples
                ELSE IF pc \in {"done", "error"} THEN 0
                ELSE IF pc = "sample"
                     THEN (epochs - epoch) * Rows(data) + Rows(data) - (i + j)
                     ELSE (epochs - epoch) * Rows(data)
    IN  /\ \A n \in DOMAIN weights : \A k \in DOMAIN weights[n] :
               weights[n][k] % Pow2(left) = 0
        /\ \A n \in DOMAIN coordinates : \A a \in 0..2 :
               coordinates[n][a] % Pow2(left) = 0

\* ================================================================ claims
Len0(x) == Cardinality(DOMAIN x)

\* C1: from the moment train() begins, the learning rate and the radius in
\* effect are never below min_lr and min_radius (the first epoch included).
C1_FloorsFromTrainBegin ==
    pc # "idle" => (current_lr >= min_lr /\ current_radius >= min_radius)

\* C2: find_bmu returns an index in [0, N) of a node with the minimal
\* distance, the lowest such index on an exact tie, and changes neither
\* weights nor coordinates nor learning parameters.
C2_FindBmuLowestMinimum ==
    [][(ret'.op = "find_bmu" /\ ret'.res.ok) =>
          LET dists == distance_metric(weights, ret'.x)
              b     == ret'.res.idx
          IN  /\ b \in 0..(num_nodes - 1)
              /\ \A n \in 0..(num_nodes - 1) : dists[b] <= dists[n]
              /\ \A n \in 0..(b - 1) : dists[n] > dists[b]
              /\ UNCHANGED mapVars]_vars

\* a find_bmu call with an input of length input_dim on which node 0 and
\* node 1 tie for the minimum
C2_Witness ==
    /\ ret.op = "find_bmu" /\ ret.res.ok
    /\ Len0(ret.x) = input_dim
    /\ num_nodes >= 2
    /\ distance_metric(weights, ret.x)[0] = distance_metric(weights, ret.x)[1]
    /\ \A n \in DOMAIN weights :
          distance_metric(weights, ret.x)[0] <= distance_metric(weights, ret.x)[n]

\* C3: calc_convergence returns 1.0 when the current node weights are
\* passed as the reference data (N >= 2), all-zero weights included.
C3_SelfReferenceConverged ==
    (ret.op = "calc_convergence" /\ ret.data_ref = weights /\ num_nodes >= 2)
        => (ret.res.ok /\ ret.res.cv = input_dim)

\* C4: update_weights(bmu, x, lr) changes at most the weight vector of node
\* bmu and leaves the other weights, all coordinates and the learning
\* parameters alone; one sample of train changes no weight but the BMU's.
C4_OnlyBmuWeightChanges ==
    [][/\ (ret'.op = "update_weights" /\ ret.op = "none") =>
             /\ \A n \in DOMAIN weights :
                   n # ret'.bmu_idx => weights'[n] = weights[n]
             /\ UNCHANGED <<num_nodes, input_dim, coordinates, initial_lr,
                            current_lr, initial_radius, current_radius, last_cv>>
       /\ pc = "sample" =>
             /\ \A n \in DOMAIN weights :
                   n # find_bmu(weights, data_shuffled[i + j]).idx
                       => weights'[n] = weights[n]
             /\ UNCHANGED <<current_lr, current_radius>>]_vars

\* an update_weights call on a map of two nodes that moved its node off the
\* initial grid
C4_Witness ==
    /\ ret.op = "update_weights" /\ ret.ok /\ ret.lr = 1
    /\ num_nodes >= 2
    /\ \E k \in DOMAIN weights[ret.bmu_idx] : weights[ret.bmu_idx][k] \notin GridVals

\* C5: update_coordinates(bmu, neighbors, coord_lr) never changes the
\* coordinate of a node outside the neighbor set, never changes the BMU's
\* own coordinate, and never changes a weight.
C5_CoordinateUpdateFrame ==
    [][(ret'.op = "update_coordinates" /\ ret.op = "none") =>
          /\ \A n \in DOMAIN coordinates :
                n \notin ret'.neighbor_indices => coordinates'[n] = coordinates[n]
          /\ coordinates'[ret'.bmu_idx] = coordinates[ret'.bmu_idx]
          /\ weights' = weights]_vars

\* an update_coordinates call whose neighbor set holds the BMU and a node
\* that it moved off the initial grid
C5_Witness ==
    /\ ret.op = "update_coordinates" /\ ret.coord_lr = 3
    /\ ret.bmu_idx \in ret.neighbor_indices
    /\ \E n \in ret.neighbor_indices : \E a \in 0..2 : coordinates[n][a] \notin GridVals

C7_DegenerateSampleFails ==
    /\ (ret.op = "calc_convergence" /\ (Rows(ret.data_ref) <= 1 \/ num_nodes <= 1))
          => ~ret.res.ok
    /\ pc = "decay" => (Rows(ref_data_np) > 1 /\ num_nodes > 1)

\* C8: an input vector whose length differs from input_dim (length 1
\* included) makes find_bmu, update_weights and the sample step of train
\* fail at once, with weights and coordinates as they were.
C8_DimensionMismatchRejected ==
    [][/\ (ret'.op = "find_bmu" /\ Len0(ret'.x) # input_dim) => ~ret'.res.ok
       /\ (ret'.op = "update_weights" /\ ret.op = "none" /\ Len0(ret'.x) # input_dim)
             => (~ret'.ok /\ weights' = weights)
       /\ (pc = "sample" /\ Len0(data_shuffled[i + j]) # input_dim)
             => (pc' = "error" /\ weights' = weights /\ coordinates' = coordinates)]_vars

\* steps train still has to take: 0 when it has returned or raised
Remaining ==
    LET perEpoch == Rows(data) + 3
        base     == (epochs - epoch) * perEpoch
    IN  IF pc = "epoch" THEN base + 1
        ELSE IF pc = "decay" THEN base + 2
        ELSE IF pc = "convergence" THEN base + 3
        ELSE IF pc = "sample" THEN base + 3 + (Rows(data) - (i + j))
        ELSE 0

\* C9: for a dataset of vectors of length input_dim, train terminates (it
\* can always take a step until it returns, and every step lowers the
\* number of steps it has left), and it returns after exactly `epochs`
\* epochs, each of which processed every sample and then made one
\* convergence computation and one decay step; a convergence of 1.0 does
\* not end it early.
C9_RunsAllEpochs ==
    /\ []((pc # "idle" /\ Cols(data) = input_dim) =>
            /\ pc # "error"
            /\ pc = "epoch" => ENABLED (EpochStart \/ TrainReturn)
            /\ pc = "sample" => ENABLED SampleStep
            /\ pc = "convergence" => ENABLED ConvergenceStep
            /\ pc = "decay" => ENABLED DecayStep
            /\ epoch <= epochs
            /\ pc = "sample" => (seen = 0..(i + j - 1) /\ i + j < Rows(data))
            /\ pc \in {"convergence", "decay"} => seen = DOMAIN data
            /\ pc \in {"sample", "convergence"} =>
                  (Len(cv_log) = epoch - 1 /\ decays = epoch - 1)
            /\ pc = "decay" => (Len(cv_log) = epoch /\ decays = epoch - 1)
            /\ pc = "epoch" => (Len(cv_log) = epoch /\ decays = epoch)
            /\ pc = "done" => (epoch = epochs /\ Len(cv_log) = epochs /\ decays = epochs))
    /\ [][(pc # "idle" /\ Cols(data) = input_dim) =>
             (Remaining' < Remaining /\ Remaining' >= 0)]_vars

\* a finished run of two epochs whose first epoch measured convergence 1.0
C9_Witness ==
    /\ pc = "done" /\ epochs = 2 /\ Cols(data) = input_dim
    /\ cv_log[1] = input_dim

\* C10 (as stated): in every run in which neither the learning rate nor the
\* radius rises from one epoch to the next, the convergence value never
\* falls from one epoch to the next.
C10_NoRiseImpliesNoFall ==
    pc = "done" =>
       ((\A e \in 1..(Len(lr_log) - 1) :
            lr_log[e + 1][1] <= lr_log[e][1] /\ lr_log[e + 1][2] <= lr_log[e][2])
        => (\A e \in 1..(Len(cv_log) - 1) : cv_log[e + 1] >= cv_log[e]))

\* C10 (amended): with positive initial rate and radius, in every run in
\* which neither rises from one epoch to the next, the convergence value
\* falls from one epoch to the next only when both decayed values
\* initial * (1 - cv) after the fall are at or below their floors.
C10_NoRiseFallOnlyAtFloor ==
    (pc = "done" /\ initial_lr > 0 /\ initial_radius > 0) =>
       ((\A e \in 1..(Len(lr_log) - 1) :
            lr_log[e + 1][1] <= lr_log[e][1] /\ lr_log[e + 1][2] <= lr_log[e][2])
        => (\A e \in 1..(Len(cv_log) - 1) :
               cv_log[e + 1] < cv_log[e] =>
                  /\ initial_lr * (input_dim - cv_log[e + 1]) <= min_lr * input_dim
                  /\ initial_radius * (input_dim - cv_log[e + 1])
                        <= min_radius * input_dim))

\* a finished run with positive initial rate and radius in which the
\* convergence fell from the first epoch to the second and neither the
\* rate nor the radius ever rose
C10_Witness ==
    /\ pc = "done" /\ initial_lr > 0 /\ initial_radius > 0
    /\ Len(cv_log) = 2 /\ cv_log[2] < cv_log[1]
    /\ \A e \in 1..(Len(lr_log) - 1) :
          lr_log[e + 1][1] <= lr_log[e][1] /\ lr_log[e + 1][2] <= lr_log[e][2]

\* C11: the batch size only groups the iteration. At every position of a
\* run of train the samples processed in the running epoch are exactly the
\* first ones of the permuted data, each once and in order, all of them at
\* the end of the epoch; weights and coordinates equal what the unbatched
\* pass over those samples gives from the state at the head of the epoch,
\* and learning rate and radius after the epoch are the decay of that
\* state's convergence. None of this mentions batch_size, so two runs that
\* differ only in batch_size (also one that does not divide n) agree after
\* every epoch.
C11_BatchSizeOnlyGranularity ==
    (pc \in {"sample", "convergence", "decay", "epoch", "done"} /\ epoch > 0) =>
        LET n == Rows(data)
            m == Cardinality(seen)
        IN  /\ seen = 0..(m - 1)
            /\ m <= n
            /\ pc = "sample" => (i + j = m /\ m < n)
            /\ pc # "sample" => m = n
            /\ [weights |-> weights, coordinates |-> coordinates]
                  = SamplesUpTo(epoch_begin.weights, epoch_begin.coordinates,
                                data_shuffled, lr_log[epoch][1], lr_log[epoch][2], 0, m)
            /\ pc \in {"sample", "convergence", "decay"} =>
                  <<current_lr, current_radius>> = lr_log[epoch]
            /\ pc \in {"epoch", "done"} =>
                  LET r == calc_convergence(weights, ref_data_np)
                  IN  /\ r.ok
                      /\ current_lr = max(min_lr, Decayed(initial_lr, r.cv))
                      /\ current_radius = max(min_radius, Decayed(initial_radius, r.cv))

\* an epoch over three rows in batches of two has ended: the remainder
\* batch of one row was processed, and the epoch moved weights and
\* coordinates
C11_Witness ==
    /\ pc = "convergence"
    /\ batch_size = 2
    /\ Rows(data) = MaxSamples + 1
    /\ Rows(data) % batch_size # 0
    /\ seen = DOMAIN data
    /\ weights # epoch_begin.weights
    /\ coordinates # epoch_begin.coordinates

\* C12: within one update_coordinates call the per-neighbor updates are
\* independent. When the updates of a neighbor set (with or without the
\* BMU) have run as separate tasks, in any order and with their reads and
\* writes interleaved in any way, the coordinates are those the sequential
\* loop of update_coordinates gives from the same start.
C12_NeighborOrderIrrelevant ==
    (ret.op = "update_coordinates_tasks" /\ ret.pending = {} /\ DOMAIN ret.read = {}) =>
        coordinates = update_coordinates(ret.start, ret.bmu_idx,
                                         ret.neighbor_indices, ret.coord_lr)

\* all tasks of a call have ended whose neighbor set holds the BMU and a
\* node elsewhere, the BMU not being the first of the loop, and the node
\* has moved
C12_Witness ==
    /\ ret.op = "update_coordinates_tasks"
    /\ ret.pending = {} /\ DOMAIN ret.read = {}
    /\ ret.bmu_idx \in ret.neighbor_indices
    /\ ret.bmu_idx > 0
    /\ \E n \in ret.neighbor_indices :
          /\ ret.start[n] # ret.start[ret.bmu_idx]
          /\ coordinates[n] # ret.start[n]

\* C13: one sample is handled as BMU search on the weights before the
\* step, neighbor selection by the current radius on the coordinates before
\* the step, weight update, coordinate update with the same rate as the
\* weight update, all before the next sample; the step changes neither
\* rate nor radius. Rate and radius change only at the end of an epoch,
\* after all its samples and after its convergence value was computed, so
\* every sample of an epoch runs with the pair logged at the epoch's head.
C13_SampleOrderAndEpochSchedule ==
    [][/\ (pc = "sample" /\ pc' # "error") =>
            LET x     == data_shuffled[i + j]
                dists == distance_metric(weights, x)
                b     == CHOOSE n \in DOMAIN weights :
                             /\ \A m \in DOMAIN weights : dists[n] <= dists[m]
                             /\ \A m \in 0..(n - 1) : dists[m] > dists[n]
                nbr   == Neighbors(coordinates, b, current_radius)
            IN  /\ weights' = update_weights(weights, b, x, current_lr)
                /\ coordinates' = update_coordinates(coordinates, b, nbr, current_lr)
                /\ seen' = seen \cup {i + j}
                /\ i + j \notin seen
                /\ <<current_lr, current_radius>> = lr_log[epoch]
                /\ UNCHANGED <<current_lr, current_radius, lr_log, cv_log>>
       /\ (current_lr' # current_lr \/ current_radius' # current_radius) =>
            /\ pc = "decay" /\ pc' = "epoch"
            /\ seen = DOMAIN data
            /\ Len(cv_log) = epoch /\ cv_log[epoch] = cv
            /\ Len(lr_log) = epoch
            /\ lr_log' = Append(lr_log, <<current_lr', current_radius'>>)
            /\ UNCHANGED <<weights, coordinates>>]_vars

\* in the second epoch, run with a decayed rate, a sample has moved weights
\* and coordinates
C13_Witness ==
    /\ epoch = 2
    /\ pc \in {"sample", "convergence"}
    /\ seen # {}
    /\ current_lr # initial_lr
    /\ current_lr > 0
    /\ weights # epoch_begin.weights
    /\ coordinates # epoch_begin.coordinates

====
